---- MODULE Spec2Model ----
(***************************************************************************)
(* Capitalization checker: the word resolver (check_word), the phrase      *)
(* scanner (check_phrase), the text rewriter (correct_text) and the report *)
(* builder (analyze_text) of integrated_capitalizer.py, over the name      *)
(* store of geo_capitalizer.py.                                            *)
(*                                                                         *)
(* A Python str is modelled as a sequence of one-character strings, so     *)
(* that lower(), capitalize(), title(), split() and join() are computed    *)
(* character by character as Python computes them.                         *)
(***************************************************************************)
EXTENDS Integers, Sequences, FiniteSets, TLC

VARIABLES
    store,                \* rows of the geonames table (read-only)
    text,                 \* argument of analyze_text / context of check_word
    run,                  \* 1: analysis of the input, 2: of its corrected text
    pc,                   \* position inside analyze_text / correct_text
    sentences,            \* correct_text: re.split(...) result
    si,                   \* correct_text: index of the sentence being handled
    sentence,             \* correct_text: current sentence
    scanned,              \* correct_text: check_phrase(sentence) as returned
    corrections,          \* correct_text: sorted corrections still to apply
    corrected,            \* correct_text: current sentence being rewritten
    corrected_sentences,  \* correct_text: output segments
    changes,              \* correct_text: applied corrections, in append order
    result,               \* analyze_text: returned dict (<<>> before return)
    word,                 \* check_word: argument
    decision,             \* check_word(word, text)
    decision2,            \* check_word(decision.correct_form, text)
    store_ok,             \* the geonames table can be queried
    tie,                  \* row order of the table among equal populations
    lookup_arg,           \* lookup_name: argument
    looked,               \* lookup_name(lookup_arg)
    looked2,              \* lookup_name(lookup_arg), called once more
    now,                  \* time.time(), in seconds
    request_counts,       \* rate_limit: accepted request times per address
    client,               \* rate_limit: remote address of the last request
    response              \* rate_limit: outcome of the last request

lookupVars == <<tie, lookup_arg, looked, looked2>>

rateVars == <<now, request_counts, client, response>>

vars == <<store, text, run, pc, sentences, si, sentence, scanned, corrections,
          corrected, corrected_sentences, changes, result, word, decision,
          decision2, store_ok, lookupVars, rateVars>>

-----------------------------------------------------------------------------
(* Bounds of the model.                                                    *)

MaxTokens == 3      \* tokens in a generated input text
MaxStore == 3       \* rows in the geonames table
MaxTicks == 2       \* half minutes the clock advances
MaxOther == 1       \* recorded requests of the second address

-----------------------------------------------------------------------------
(* Characters and the Python str methods the program uses.                 *)

\* the ASCII letters, and one letter outside ASCII
LowerLetters ==
    <<"a","b","c","d","e","f","g","h","i","j","k","l","m",
      "n","o","p","q","r","s","t","u","v","w","x","y","z","ü">>

UpperLetters ==
    <<"A","B","C","D","E","F","G","H","I","J","K","L","M",
      "N","O","P","Q","R","S","T","U","V","W","X","Y","Z","Ü">>

Whitespace == {" ", "\t", "\n"}

IsSpace(c) == c \in Whitespace

LowerSet == {LowerLetters[i] : i \in DOMAIN LowerLetters}

UpperSet == {UpperLetters[i] : i \in DOMAIN UpperLetters}

\* the lower-case form of each upper-case letter, and conversely
ToLower == [c \in UpperSet |->
               LowerLetters[CHOOSE i \in DOMAIN UpperLetters :
                                UpperLetters[i] = c]]

ToUpper == [c \in LowerSet |->
               UpperLetters[CHOOSE i \in DOMAIN LowerLetters :
                                LowerLetters[i] = c]]

IsLowerChar(c) == c \in LowerSet

IsUpperChar(c) == c \in UpperSet

IsCased(c) == IsLowerChar(c) \/ IsUpperChar(c)

CharLower(c) == IF IsUpperChar(c) THEN ToLower[c] ELSE c

CharUpper(c) == IF IsLowerChar(c) THEN ToUpper[c] ELSE c

AsciiUpperSet == {UpperLetters[i] : i \in 1..26}

\* LOWER() of SQLite: the ASCII letters only
sql_lower(s) ==
    [i \in 1..Len(s) |-> IF s[i] \in AsciiUpperSet THEN ToLower[s[i]]
                                                    ELSE s[i]]

\* str.lower()
lower(s) == [i \in 1..Len(s) |-> CharLower(s[i])]

\* str.capitalize(): first character upper-cased, the rest lower-cased
capitalize(s) ==
    [i \in 1..Len(s) |-> IF i = 1 THEN CharUpper(s[i]) ELSE CharLower(s[i])]

\* str.title(): a cased character is upper-cased when the character before
\* it is not cased (or there is none), lower-cased otherwise
title(s) ==
    [i \in 1..Len(s) |->
        IF IsCased(s[i])
        THEN IF i > 1 /\ IsCased(s[i-1]) THEN CharLower(s[i])
                                         ELSE CharUpper(s[i])
        ELSE s[i]]

\* str.isupper() of a one-character string
isupper(c) == IsUpperChar(c)

RECURSIVE SplitAcc(_, _, _, _)
SplitAcc(s, i, cur, acc) ==
    IF i > Len(s)
    THEN IF cur = <<>> THEN acc ELSE Append(acc, cur)
    ELSE IF IsSpace(s[i])
         THEN SplitAcc(s, i + 1, <<>>,
                       IF cur = <<>> THEN acc ELSE Append(acc, cur))
         ELSE SplitAcc(s, i + 1, Append(cur, s[i]), acc)

\* str.split() without argument: the maximal runs of non-whitespace
split(s) == SplitAcc(s, 1, <<>>, <<>>)

RECURSIVE join(_, _)
\* sep.join(words)
join(sep, words) ==
    IF words = <<>> THEN <<>>
    ELSE IF Len(words) = 1 THEN words[1]
    ELSE words[1] \o sep \o join(sep, Tail(words))

RECURSIVE concat(_)
\* ''.join(words)
concat(words) ==
    IF words = <<>> THEN <<>> ELSE words[1] \o concat(Tail(words))

\* str.strip(): leading and trailing whitespace removed
strip(s) ==
    LET keep == {i \in 1..Len(s) : ~IsSpace(s[i])}
    IN  IF keep = {} THEN <<>>
        ELSE SubSeq(s, CHOOSE i \in keep : \A j \in keep : i <= j,
                       CHOOSE i \in keep : \A j \in keep : i >= j)

\* needle in haystack
contains(haystack, needle) ==
    \E i \in 1..(Len(haystack) - Len(needle) + 1) :
        SubSeq(haystack, i, i + Len(needle) - 1) = needle

\* a match of [.!?]\s+ starts at index i of s
DelimAt(s, i) ==
    /\ i < Len(s)
    /\ s[i] \in {".", "!", "?"}
    /\ IsSpace(s[i + 1])

RECURSIVE re_split_no_group(_)
\* as re_split, for the pattern without the capturing group: the matched
\* delimiters are not returned
re_split_no_group(s) ==
    IF ~\E i \in 1..Len(s) : DelimAt(s, i) THEN <<s>>
    ELSE LET i == CHOOSE k \in 1..Len(s) :
                      DelimAt(s, k) /\ \A m \in 1..(k - 1) : ~DelimAt(s, m)
             j == CHOOSE k \in (i + 1)..Len(s) :
                      /\ \A m \in (i + 1)..k : IsSpace(s[m])
                      /\ (k = Len(s) \/ ~IsSpace(s[k + 1]))
         IN  <<SubSeq(s, 1, i - 1)>>
                 \o re_split_no_group(SubSeq(s, j + 1, Len(s)))

RECURSIVE re_split(_)
\* re.split(r'([.!?]\s+)', s): the segments between the matches, alternating
\* with the matched delimiters (the pattern is one capturing group)
re_split(s) ==
    IF ~\E i \in 1..Len(s) : DelimAt(s, i) THEN <<s>>
    ELSE LET i == CHOOSE k \in 1..Len(s) :
                      DelimAt(s, k) /\ \A m \in 1..(k - 1) : ~DelimAt(s, m)
             j == CHOOSE k \in (i + 1)..Len(s) :
                      /\ \A m \in (i + 1)..k : IsSpace(s[m])
                      /\ (k = Len(s) \/ ~IsSpace(s[k + 1]))
         IN  <<SubSeq(s, 1, i - 1), SubSeq(s, i, j)>>
                 \o re_split(SubSeq(s, j + 1, Len(s)))

-----------------------------------------------------------------------------
(* Rule catalogue: IntegratedCapitalizer.rules and .lowercase_terms.       *)

rules_days ==
    { <<"m","o","n","d","a","y">>,
      <<"t","u","e","s","d","a","y">>,
      <<"w","e","d","n","e","s","d","a","y">>,
      <<"t","h","u","r","s","d","a","y">>,
      <<"f","r","i","d","a","y">>,
      <<"s","a","t","u","r","d","a","y">>,
      <<"s","u","n","d","a","y">> }

rules_months ==
    { <<"j","a","n","u","a","r","y">>,
      <<"f","e","b","r","u","a","r","y">>,
      <<"m","a","r","c","h">>,
      <<"a","p","r","i","l">>,
      <<"m","a","y">>,
      <<"j","u","n","e">>,
      <<"j","u","l","y">>,
      <<"a","u","g","u","s","t">>,
      <<"s","e","p","t","e","m","b","e","r">>,
      <<"o","c","t","o","b","e","r">>,
      <<"n","o","v","e","m","b","e","r">>,
      <<"d","e","c","e","m","b","e","r">> }

rules_holidays ==
    { <<"c","h","r","i","s","t","m","a","s">>,
      <<"e","a","s","t","e","r">>,
      <<"t","h","a","n","k","s","g","i","v","i","n","g">>,
      <<"h","a","l","l","o","w","e","e","n">>,
      <<"v","a","l","e","n","t","i","n","e">>,
      <<"i","n","d","e","p","e","n","d","e","n","c","e"," ","d","a","y">>,
      <<"n","e","w"," ","y","e","a","r">> }

rules_languages ==
    { <<"e","n","g","l","i","s","h">>,
      <<"s","p","a","n","i","s","h">>,
      <<"f","r","e","n","c","h">>,
      <<"g","e","r","m","a","n">>,
      <<"i","t","a","l","i","a","n">>,
      <<"c","h","i","n","e","s","e">>,
      <<"j","a","p","a","n","e","s","e">>,
      <<"r","u","s","s","i","a","n">>,
      <<"a","r","a","b","i","c">> }

rules_military_ranks ==
    { <<"c","a","p","t","a","i","n">>,
      <<"c","o","l","o","n","e","l">>,
      <<"g","e","n","e","r","a","l">>,
      <<"l","i","e","u","t","e","n","a","n","t">>,
      <<"s","e","r","g","e","a","n","t">>,
      <<"m","a","j","o","r">>,
      <<"a","d","m","i","r","a","l">>,
      <<"c","o","m","m","a","n","d","e","r">> }

rules_titles ==
    { <<"p","r","e","s","i","d","e","n","t">>,
      <<"s","e","n","a","t","o","r">>,
      <<"g","o","v","e","r","n","o","r">>,
      <<"m","a","y","o","r">>,
      <<"d","o","c","t","o","r">>,
      <<"p","r","o","f","e","s","s","o","r">>,
      <<"j","u","d","g","e">>,
      <<"r","e","v","e","r","e","n","d">> }

rules_religions ==
    { <<"c","h","r","i","s","t","i","a","n","i","t","y">>,
      <<"i","s","l","a","m">>,
      <<"j","u","d","a","i","s","m">>,
      <<"b","u","d","d","h","i","s","m">>,
      <<"h","i","n","d","u","i","s","m">> }

rules_deities ==
    { <<"g","o","d">>,
      <<"a","l","l","a","h">>,
      <<"b","u","d","d","h","a">>,
      <<"j","e","s","u","s">>,
      <<"c","h","r","i","s","t">> }

deity_subset ==
    { <<"g","o","d">>,
      <<"a","l","l","a","h">>,
      <<"j","e","s","u","s">>,
      <<"c","h","r","i","s","t">>,
      <<"b","u","d","d","h","a">> }

lowercase_terms_seasons ==
    { <<"s","p","r","i","n","g">>,
      <<"s","u","m","m","e","r">>,
      <<"f","a","l","l">>,
      <<"a","u","t","u","m","n">>,
      <<"w","i","n","t","e","r">> }

lowercase_terms_directions ==
    { <<"n","o","r","t","h">>,
      <<"s","o","u","t","h">>,
      <<"e","a","s","t">>,
      <<"w","e","s","t">>,
      <<"n","o","r","t","h","e","r","n">>,
      <<"s","o","u","t","h","e","r","n">>,
      <<"e","a","s","t","e","r","n">>,
      <<"w","e","s","t","e","r","n">> }

-----------------------------------------------------------------------------
(* Name store: GeoCapitalizer over the geonames table.                     *)

\* Optional[...]: None, or a value x as <<x>>
None == <<>>

\* rows the table is populated from (geonameid, name, asciiname, population)
GeoRecords ==
    { [geonameid |-> 1, population |-> 8,
       name      |-> <<"N","e","w"," ","Y","o","r","k"," ","C","i","t","y">>,
       asciiname |-> <<"N","e","w"," ","Y","o","r","k"," ","C","i","t","y">>],
      [geonameid |-> 2, population |-> 19,
       name      |-> <<"N","e","w"," ","Y","o","r","k">>,
       asciiname |-> <<"N","e","w"," ","Y","o","r","k">>],
      [geonameid |-> 3, population |-> 1,
       name      |-> <<"Y","o","r","k">>,
       asciiname |-> <<"Y","o","r","k">>],
      [geonameid |-> 4, population |-> 0,
       name      |-> <<"S","u","m","m","e","r">>,
       asciiname |-> <<"S","u","m","m","e","r">>] }

Stores == {S \in SUBSET GeoRecords : Cardinality(S) <= MaxStore}

\* rows for the queries of lookup_name on their own: a name outside ASCII,
\* names that differ in case only, two of them with the same population,
\* and a name whose ASCII form is a sentence delimiter
LookupRecords ==
    { [geonameid |-> 10, population |-> 5,
       name      |-> <<"Z","ü","r","i","c","h">>,
       asciiname |-> <<"Z","u","r","i","c","h">>],
      [geonameid |-> 11, population |-> 1,
       name      |-> <<"Y","o","r","k">>,
       asciiname |-> <<"Y","o","r","k">>],
      [geonameid |-> 12, population |-> 0,
       name      |-> <<"y","o","r","k">>,
       asciiname |-> <<"y","o","r","k">>],
      [geonameid |-> 13, population |-> 1,
       name      |-> <<"Y","O","R","K">>,
       asciiname |-> <<"Y","O","R","K">>],
      [geonameid |-> 14, population |-> 0,
       name      |-> <<"·">>,
       asciiname |-> <<".">>] }

LookupStores == {S \in SUBSET LookupRecords : Cardinality(S) <= MaxStore}

\* the order in which the table returns rows of equal population: SQL leaves
\* it open, a given table has one
TieOrders == {"lowest id", "highest id"}

\* as lookup_name, with the exact stage left out
lookup_name_nocase_only(name) ==
    LET nocase == {r \in store :
                      \/ sql_lower(r.name) = sql_lower(name)
                      \/ sql_lower(r.asciiname) = sql_lower(name)}
    IN  IF nocase # {}
        THEN <<CHOOSE r \in nocase :
                   \A q \in nocase : r.population >= q.population>>
        ELSE None

\* ORDER BY population DESC LIMIT 1
first_by_population(rows) ==
    LET top == {r \in rows : \A q \in rows : r.population >= q.population}
    IN  IF tie = "lowest id"
        THEN CHOOSE r \in top : \A q \in top : r.geonameid <= q.geonameid
        ELSE CHOOSE r \in top : \A q \in top : r.geonameid >= q.geonameid

lookup_name(name) ==
    LET exact == {r \in store : r.name = name \/ r.asciiname = name}
        nocase == {r \in store :
                      \/ sql_lower(r.name) = sql_lower(name)
                      \/ sql_lower(r.asciiname) = sql_lower(name)}
    IN  IF exact # {} THEN <<first_by_population(exact)>>
        ELSE IF nocase # {} THEN <<first_by_population(nocase)>>
        ELSE None

is_proper_name(name) == lookup_name(name) # None

get_correct_capitalization(name) ==
    LET info == lookup_name(name)
    IN  IF info # None THEN <<info[1].name>> ELSE None

\* (None, None) is [found |-> FALSE]; (is_correct, correct_form) otherwise
check_capitalization(t) ==
    LET correct_form == get_correct_capitalization(t)
    IN  IF correct_form = None
        THEN [found |-> FALSE, is_correct |-> FALSE, correct_form |-> <<>>]
        ELSE [found |-> TRUE, is_correct |-> (t = correct_form[1]),
              correct_form |-> correct_form[1]]

-----------------------------------------------------------------------------
(* Word resolver: IntegratedCapitalizer.check_word.                        *)

\* as index_of, for the last occurrence
index_of_last(ws, w) ==
    (CHOOSE i \in 1..Len(ws) :
         ws[i] = w /\ \A j \in (i + 1)..Len(ws) : ws[j] # w) - 1

\* index (0-based) of the first occurrence of w in ws; ws must contain w
index_of(ws, w) ==
    (CHOOSE i \in 1..Len(ws) : ws[i] = w /\ \A j \in 1..(i - 1) : ws[j] # w) - 1

\* lines 98-103: the word occurs in context.split() and the token after its
\* first occurrence starts with an upper-case character
followed_by_capitalized(w, context) ==
    LET context_words == split(context)
    IN  /\ \E i \in 1..Len(context_words) : context_words[i] = w
        /\ LET word_index == index_of(context_words, w)
           IN  /\ word_index + 1 < Len(context_words)
               /\ isupper(context_words[word_index + 2][1])

\* line 83, over the loop of line 82
\* as holiday_matches, without the test of the context
holiday_matches_word_only(word_lower, context) ==
    word_lower \in rules_holidays

holiday_matches(word_lower, context) ==
    LET context_lower == lower(context)
    IN  \E holiday \in rules_holidays :
            word_lower = holiday \/ contains(context_lower, holiday)

\* as lexical_rules, comparing the lower-cased word with the capitalized form
lexical_rules_lower_compare(w, context) ==
    LET word_lower == lower(w)
        cap == capitalize(word_lower)
    IN  IF word_lower \in rules_days /\ word_lower # cap
        THEN <<TRUE, cap, "Day of week">>
        ELSE IF word_lower \in rules_months /\ word_lower # cap
        THEN <<TRUE, cap, "Month">>
        ELSE IF holiday_matches(word_lower, context) /\ w # title(word_lower)
        THEN <<TRUE, title(word_lower), "Holiday">>
        ELSE IF word_lower \in rules_languages /\ word_lower # cap
        THEN <<TRUE, cap, "Language">>
        ELSE IF /\ word_lower \in rules_military_ranks \cup rules_titles
                /\ followed_by_capitalized(w, context)
                /\ word_lower # cap
        THEN <<TRUE, cap,
               IF word_lower \in rules_military_ranks
               THEN "Military rank before name" ELSE "Title before name">>
        ELSE IF word_lower \in rules_religions /\ word_lower # cap
        THEN <<TRUE, cap, "Religion">>
        ELSE IF /\ word_lower \in rules_deities
                /\ word_lower \in deity_subset
                /\ word_lower # cap
        THEN <<TRUE, cap, "Deity">>
        ELSE IF word_lower \in lowercase_terms_seasons /\ w # word_lower
        THEN <<TRUE, word_lower, "Season (lowercase)">>
        ELSE <<FALSE, w, "Correct">>

\* priorities 2 to 8 and the lowercase exceptions (lines 69-137)
lexical_rules(w, context) ==
    LET word_lower == lower(w)
        cap == capitalize(word_lower)
    IN  IF word_lower \in rules_days /\ w # cap
        THEN <<TRUE, cap, "Day of week">>
        ELSE IF word_lower \in rules_months /\ w # cap
        THEN <<TRUE, cap, "Month">>
        ELSE IF holiday_matches(word_lower, context) /\ w # title(word_lower)
        THEN <<TRUE, title(word_lower), "Holiday">>
        ELSE IF word_lower \in rules_languages /\ w # cap
        THEN <<TRUE, cap, "Language">>
        ELSE IF /\ word_lower \in rules_military_ranks \cup rules_titles
                /\ followed_by_capitalized(w, context)
                /\ w # cap
        THEN <<TRUE, cap,
               IF word_lower \in rules_military_ranks
               THEN "Military rank before name" ELSE "Title before name">>
        ELSE IF word_lower \in rules_religions /\ w # cap
        THEN <<TRUE, cap, "Religion">>
        ELSE IF /\ word_lower \in rules_deities
                /\ word_lower \in deity_subset
                /\ w # cap
        THEN <<TRUE, cap, "Deity">>
        ELSE IF word_lower \in lowercase_terms_seasons /\ w # word_lower
        THEN <<TRUE, word_lower, "Season (lowercase)">>
        ELSE <<FALSE, w, "Correct">>

\* as check_word, without the return of line 67
check_word_no_return(w, context) ==
    LET geo_result == check_capitalization(w)
    IN  IF geo_result.found /\ ~geo_result.is_correct
        THEN <<TRUE, geo_result.correct_form, "Geographic name">>
        ELSE lexical_rules(w, context)

\* (needs_correction, correct_form, reason)
check_word(w, context) ==
    LET geo_result == check_capitalization(w)
    IN  IF geo_result.found
        THEN IF ~geo_result.is_correct
             THEN <<TRUE, geo_result.correct_form, "Geographic name">>
             ELSE <<FALSE, w, "Correct">>
        ELSE lexical_rules(w, context)

-----------------------------------------------------------------------------
(* Phrase scanner: IntegratedCapitalizer.check_phrase.                     *)

\* as Correction, with the position counted from 1
Correction_one_based(i, original, correct, reason) ==
    [position |-> i + 1, original |-> original, correct |-> correct,
     reason |-> reason]

\* the dict appended at lines 157-162, 172-177 and 184-189
Correction(i, original, correct, reason) ==
    [position |-> i, original |-> original, correct |-> correct,
     reason |-> reason]

\* as phrase_step, without the continue statements of lines 163 and 178
phrase_step_no_continue(words, phrase, i) ==
    LET three_word == join(<<" ">>, SubSeq(words, i + 1, i + 3))
        geo3 == check_capitalization(three_word)
        two_word == join(<<" ">>, SubSeq(words, i + 1, i + 2))
        geo2 == check_capitalization(two_word)
        w == words[i + 1]
        checked == check_word(w, phrase)
    IN  (IF i + 2 < Len(words) /\ geo3.found /\ ~geo3.is_correct
         THEN <<Correction(i, three_word, geo3.correct_form,
                           "Geographic name (3 words)")>>
         ELSE <<>>)
        \o (IF i + 1 < Len(words) /\ geo2.found /\ ~geo2.is_correct
            THEN <<Correction(i, two_word, geo2.correct_form,
                              "Geographic name (2 words)")>>
            ELSE <<>>)
        \o (IF checked[1]
            THEN <<Correction(i, w, checked[2], checked[3])>>
            ELSE <<>>)

\* one iteration of the loop of line 149, for index i (0-based): the
\* corrections it appends
phrase_step(words, phrase, i) ==
    LET three_word == join(<<" ">>, SubSeq(words, i + 1, i + 3))
        geo3 == check_capitalization(three_word)
        two_word == join(<<" ">>, SubSeq(words, i + 1, i + 2))
        geo2 == check_capitalization(two_word)
        w == words[i + 1]
        checked == check_word(w, phrase)
    IN  IF i + 2 < Len(words) /\ geo3.found /\ ~geo3.is_correct
        THEN <<Correction(i, three_word, geo3.correct_form,
                          "Geographic name (3 words)")>>
        ELSE IF i + 1 < Len(words) /\ geo2.found /\ ~geo2.is_correct
        THEN <<Correction(i, two_word, geo2.correct_form,
                          "Geographic name (2 words)")>>
        ELSE IF checked[1]
        THEN <<Correction(i, w, checked[2], checked[3])>>
        ELSE <<>>

RECURSIVE scan_from(_, _, _)
\* iterations i, i+1, ... of the loop of line 149
scan_from(words, phrase, i) ==
    IF i >= Len(words) THEN <<>>
    ELSE phrase_step(words, phrase, i) \o scan_from(words, phrase, i + 1)

check_phrase(phrase) == scan_from(split(phrase), phrase, 0)

-----------------------------------------------------------------------------
(* Text rewriter and report builder: correct_text and analyze_text.        *)

RECURSIVE insert_desc(_, _)
insert_desc(c, sorted) ==
    IF sorted = <<>> THEN <<c>>
    ELSE IF c.position > sorted[1].position THEN <<c>> \o sorted
    ELSE <<sorted[1]>> \o insert_desc(c, Tail(sorted))

RECURSIVE sorted_reverse(_)
\* sorted(cs, key=lambda x: x['position'], reverse=True); stable
sorted_reverse(cs) ==
    IF cs = <<>> THEN <<>>
    ELSE insert_desc(cs[Len(cs)], sorted_reverse(SubSeq(cs, 1, Len(cs) - 1)))

\* as stats_of, setting the count of a reason to 1 each time
stats_of_no_increment(chs) ==
    [r \in {chs[i].reason : i \in 1..Len(chs)} |-> 1]

\* lines 237-240
stats_of(chs) ==
    [r \in {chs[i].reason : i \in 1..Len(chs)} |->
        Cardinality({i \in 1..Len(chs) : chs[i].reason = r})]

-----------------------------------------------------------------------------
(* Inputs.                                                                 *)

Vocabulary ==
    { <<"n","e","w">>, <<"y","o","r","k">>, <<"c","i","t","y">>,
      <<"S","u","m","m","e","r">>, <<"c","h","r","i","s","t","m","a","s">> }

TokenLists == UNION {[1..n -> Vocabulary] : n \in 0..MaxTokens}

\* line 265, the first test text of main()
ExampleText ==
    <<"I"," ","v","i","s","i","t","e","d"," ","n","e","w"," ","y","o","r","k",
      " ","o","n"," ","m","o","n","d","a","y",".">>

\* the empty text is the join of no token; whitespace only; a delimiter only;
\* two sentences; a delimiter followed by two blanks; two blanks in a sentence;
\* a rank before a capitalized token and a rank as the last token; a
\* capitalized rank before a capitalized token; a rank twice, the second
\* time before a capitalized token
BoundaryTexts ==
    { <<" ">>,
      <<"."," ">>,
      <<"n","e","w"," ","y","o","r","k","."," ",
        "S","u","m","m","e","r"," ","c","h","r","i","s","t","m","a","s">>,
      <<"y","o","r","k","!"," "," ","n","e","w"," ","y","o","r","k">>,
      <<"n","e","w"," "," ","y","o","r","k">>,
      <<"c","o","l","o","n","e","l"," ","Y","o","r","k"," ",
        "c","a","p","t","a","i","n">>,
      <<"C","o","l","o","n","e","l"," ","Y","o","r","k">>,
      <<"c","a","p","t","a","i","n"," ","n","e","w"," ",
        "c","a","p","t","a","i","n"," ","Y","o","r","k">> }

Texts ==
    {join(<<" ">>, ws) : ws \in TokenLists} \cup {ExampleText}
        \cup BoundaryTexts

-----------------------------------------------------------------------------
(* analyze_text, step by step.                                             *)

\* as query_raises, with the exception swallowed
query_never_raises == FALSE

\* cursor.execute raises sqlite3.Error when the table cannot be queried
query_raises == ~store_ok

\* lookup_name and the rate limiter at rest
IdleLookup ==
    /\ tie = "lowest id"
    /\ lookup_arg = <<>>
    /\ looked = None
    /\ looked2 = None

IdleRate ==
    /\ now = 0
    /\ request_counts = <<>>
    /\ client = ""
    /\ response = "none"

Init ==
    /\ store \in Stores
    /\ text \in Texts
    /\ run = 1
    /\ pc = "start"
    /\ sentences = <<>>
    /\ si = 0
    /\ sentence = <<>>
    /\ scanned = <<>>
    /\ corrections = <<>>
    /\ corrected = <<>>
    /\ corrected_sentences = <<>>
    /\ changes = <<>>
    /\ result = None
    /\ word = <<>>
    /\ decision = None
    /\ decision2 = None
    /\ store_ok = TRUE
    /\ IdleLookup
    /\ IdleRate

\* lines 200-202
CorrectTextSplit ==
    /\ pc = "start"
    /\ changes' = <<>>
    /\ sentences' = re_split(text)
    /\ corrected_sentences' = <<>>
    /\ si' = 1
    /\ pc' = "loop"
    /\ UNCHANGED <<store, text, run, sentence, scanned, corrections, corrected,
                   result, word, decision, decision2>>
    /\ UNCHANGED <<store_ok, lookupVars, rateVars>>

\* lines 204-207: an empty or whitespace-only segment is kept as it is
PassThrough ==
    /\ pc = "loop"
    /\ si <= Len(sentences)
    /\ strip(sentences[si]) = <<>>
    /\ sentence' = sentences[si]
    /\ corrected_sentences' = Append(corrected_sentences, sentences[si])
    /\ si' = si + 1
    /\ UNCHANGED <<store, text, run, pc, sentences, scanned, corrections,
                   corrected, changes, result, word, decision, decision2>>
    /\ UNCHANGED <<store_ok, lookupVars, rateVars>>

\* lines 204-213: the segment is scanned and its corrections are sorted; the
\* first iteration of check_phrase queries the table, and an exception of the
\* query is caught nowhere in check_phrase, correct_text or analyze_text
ScanSentence ==
    /\ pc = "loop"
    /\ si <= Len(sentences)
    /\ strip(sentences[si]) # <<>>
    /\ sentence' = sentences[si]
    /\ IF query_raises
       THEN /\ pc' = "unavailable"
            /\ UNCHANGED <<scanned, corrections, corrected>>
       ELSE /\ scanned' = check_phrase(sentences[si])
            /\ corrections' = sorted_reverse(scanned')
            /\ corrected' = sentences[si]
            /\ pc' = "apply"
    /\ UNCHANGED <<store, text, run, sentences, si, corrected_sentences,
                   changes, result, word, decision, decision2>>
    /\ UNCHANGED <<store_ok, lookupVars, rateVars>>

\* lines 213-217: one iteration of the loop over the sorted corrections;
\* words[...] = ... raises IndexError when the position is no index of words
ApplyCorrection ==
    /\ pc = "apply"
    /\ corrections # <<>>
    /\ LET correction == Head(corrections)
           words == split(corrected)
       IN  IF correction.position >= Len(words)
           THEN /\ pc' = "error"
                /\ UNCHANGED <<corrected, changes, corrections>>
           ELSE /\ corrected' =
                       join(<<" ">>, [words EXCEPT ![correction.position + 1] =
                                                       correction.correct])
                /\ changes' = Append(changes, correction)
                /\ corrections' = Tail(corrections)
                /\ pc' = "apply"
    /\ UNCHANGED <<store, text, run, sentences, si, sentence, scanned,
                   corrected_sentences, result, word, decision, decision2>>
    /\ UNCHANGED <<store_ok, lookupVars, rateVars>>

\* line 219
AppendCorrected ==
    /\ pc = "apply"
    /\ corrections = <<>>
    /\ corrected_sentences' = Append(corrected_sentences, corrected)
    /\ si' = si + 1
    /\ pc' = "loop"
    /\ UNCHANGED <<store, text, run, sentences, sentence, scanned, corrections,
                   corrected, changes, result, word, decision, decision2>>
    /\ UNCHANGED <<store_ok, lookupVars, rateVars>>

\* lines 221-222 and 236-248
AnalyzeReturn ==
    /\ pc = "loop"
    /\ si > Len(sentences)
    /\ result' = [original_text |-> text,
                  corrected_text |-> concat(corrected_sentences),
                  changes |-> changes,
                  stats |-> stats_of(changes),
                  total_corrections |-> Len(changes)]
    /\ pc' = "done"
    /\ UNCHANGED <<store, text, run, sentences, si, sentence, scanned,
                   corrections, corrected, corrected_sentences, changes, word,
                   decision, decision2>>
    /\ UNCHANGED <<store_ok, lookupVars, rateVars>>

\* the corrected text is analysed in its turn
Reanalyze ==
    /\ pc = "done"
    /\ run = 1
    /\ text' = result.corrected_text
    /\ run' = 2
    /\ pc' = "start"
    /\ sentences' = <<>>
    /\ si' = 0
    /\ sentence' = <<>>
    /\ scanned' = <<>>
    /\ corrections' = <<>>
    /\ corrected' = <<>>
    /\ corrected_sentences' = <<>>
    /\ changes' = <<>>
    /\ result' = None
    /\ UNCHANGED <<store, word, decision, decision2>>
    /\ UNCHANGED <<store_ok, lookupVars, rateVars>>

\* the table stops answering: between two segments of an analysis, or before
\* a call of check_word
StoreFails ==
    /\ store_ok
    /\ \/ pc = "start"
       \/ pc = "loop" /\ si <= Len(sentences)
       \/ pc = "word"
       \/ pc = "resolved" /\ decision[1]
       \/ pc \in {"lookup", "looked"}
    /\ store_ok' = FALSE
    /\ UNCHANGED <<store, text, run, pc, sentences, si, sentence, scanned,
                   corrections, corrected, corrected_sentences, changes,
                   result, word, decision, decision2, lookupVars, rateVars>>

Next ==
    \/ CorrectTextSplit
    \/ PassThrough
    \/ ScanSentence
    \/ ApplyCorrection
    \/ AppendCorrected
    \/ AnalyzeReturn
    \/ Reanalyze
    \/ StoreFails

Spec == Init /\ [][Next]_vars

-----------------------------------------------------------------------------
(* check_word on its own, and again on the form it returned.               *)

ResolveWords ==
    Vocabulary \cup
    { <<"s","u","m","m","e","r">>, <<"Y","o","r","k">>,
      <<"m","o","n","d","a","y">>, <<"M","o","n","d","a","y">>,
      <<"c","o","l","o","n","e","l">>, <<"c","a","p","t","a","i","n">>,
      <<"C","o","l","o","n","e","l">>,
      <<"m","a","y">>, <<"e","n","g","l","i","s","h">>,
      <<"i","s","l","a","m">>, <<"g","o","d">> }

InitResolve ==
    /\ store \in Stores
    /\ text \in Texts
    /\ word \in ResolveWords
    /\ run = 1
    /\ pc = "word"
    /\ sentences = <<>>
    /\ si = 0
    /\ sentence = <<>>
    /\ scanned = <<>>
    /\ corrections = <<>>
    /\ corrected = <<>>
    /\ corrected_sentences = <<>>
    /\ changes = <<>>
    /\ result = None
    /\ decision = None
    /\ decision2 = None
    /\ store_ok = TRUE
    /\ IdleLookup
    /\ IdleRate

\* check_word queries the table first (line 62) and catches no exception of
\* the query
Resolve ==
    /\ pc = "word"
    /\ IF query_raises
       THEN pc' = "unavailable" /\ UNCHANGED decision
       ELSE decision' = check_word(word, text) /\ pc' = "resolved"
    /\ UNCHANGED <<store, text, run, sentences, si, sentence, scanned,
                   corrections, corrected, corrected_sentences, changes,
                   result, word, decision2>>
    /\ UNCHANGED <<store_ok, lookupVars, rateVars>>

ResolveAgain ==
    /\ pc = "resolved"
    /\ decision[1]
    /\ IF query_raises
       THEN pc' = "unavailable" /\ UNCHANGED decision2
       ELSE decision2' = check_word(decision[2], text) /\ pc' = "resolved2"
    /\ UNCHANGED <<store, text, run, sentences, si, sentence, scanned,
                   corrections, corrected, corrected_sentences, changes,
                   result, word, decision>>
    /\ UNCHANGED <<store_ok, lookupVars, rateVars>>

NextResolve == Resolve \/ ResolveAgain \/ StoreFails

SpecResolve == InitResolve /\ [][NextResolve]_vars

-----------------------------------------------------------------------------
(* analyze_text over a table with names outside ASCII.                     *)

GeoVocabulary == { <<"z","u","r","i","c","h">>, <<"y","o","r","k">> }

GeoTokenLists == UNION {[1..n -> GeoVocabulary] : n \in 0..MaxTokens}

\* the tokens in one sentence, or each a sentence of its own; a blank text
GeoTexts ==
    {join(<<" ">>, ws) : ws \in GeoTokenLists}
        \cup {join(<<".", " ">>, ws) : ws \in GeoTokenLists}
        \cup {<<" ">>}

InitGeo ==
    /\ store \in LookupStores
    /\ tie \in TieOrders
    /\ text \in GeoTexts
    /\ run = 1
    /\ pc = "start"
    /\ sentences = <<>>
    /\ si = 0
    /\ sentence = <<>>
    /\ scanned = <<>>
    /\ corrections = <<>>
    /\ corrected = <<>>
    /\ corrected_sentences = <<>>
    /\ changes = <<>>
    /\ result = None
    /\ word = <<>>
    /\ decision = None
    /\ decision2 = None
    /\ store_ok = TRUE
    /\ lookup_arg = <<>>
    /\ looked = None
    /\ looked2 = None
    /\ IdleRate

SpecGeo == InitGeo /\ [][Next]_vars

-----------------------------------------------------------------------------
(* lookup_name on its own, called twice with the same argument.            *)

LookupNames ==
    { <<"y","o","r","k">>, <<"Y","o","r","k">>, <<"y","O","R","K">>,
      <<"Z","u","r","i","c","h">>, <<"z","u","r","i","c","h">>,
      <<"Z","ü","r","i","c","h">>, <<"z","ü","r","i","c","h">>,
      <<".">>, <<"n","e","w">> }

InitLookup ==
    /\ store \in LookupStores
    /\ tie \in TieOrders
    /\ lookup_arg \in LookupNames
    /\ looked = None
    /\ looked2 = None
    /\ text = <<>>
    /\ run = 1
    /\ pc = "lookup"
    /\ sentences = <<>>
    /\ si = 0
    /\ sentence = <<>>
    /\ scanned = <<>>
    /\ corrections = <<>>
    /\ corrected = <<>>
    /\ corrected_sentences = <<>>
    /\ changes = <<>>
    /\ result = None
    /\ word = <<>>
    /\ decision = None
    /\ decision2 = None
    /\ store_ok = TRUE
    /\ IdleRate

Lookup ==
    /\ pc = "lookup"
    /\ IF query_raises
       THEN pc' = "unavailable" /\ UNCHANGED looked
       ELSE looked' = lookup_name(lookup_arg) /\ pc' = "looked"
    /\ UNCHANGED <<store, text, run, sentences, si, sentence, scanned,
                   corrections, corrected, corrected_sentences, changes,
                   result, word, decision, decision2, store_ok, tie,
                   lookup_arg, looked2, rateVars>>

LookupAgain ==
    /\ pc = "looked"
    /\ IF query_raises
       THEN pc' = "unavailable" /\ UNCHANGED looked2
       ELSE looked2' = lookup_name(lookup_arg) /\ pc' = "looked2"
    /\ UNCHANGED <<store, text, run, sentences, si, sentence, scanned,
                   corrections, corrected, corrected_sentences, changes,
                   result, word, decision, decision2, store_ok, tie,
                   lookup_arg, looked, rateVars>>

NextLookup == Lookup \/ LookupAgain \/ StoreFails

SpecLookup == InitLookup /\ [][NextLookup]_vars

-----------------------------------------------------------------------------
(* The rate limiter of the endpoints: one request is handled at a time and *)
(* the clock does not go back.                                             *)

RATE_LIMIT == 100

\* remote addresses; only the first sends without bound
Addresses == {"a", "b"}

\* the recorded times of an address, [] for one not seen yet (lines 50-51)
recorded(ip) ==
    IF ip \in DOMAIN request_counts THEN request_counts[ip] ELSE <<>>

\* as recent, with the comparison the other way round
recent_inverted(times, current_time) ==
    SelectSeq(times, LAMBDA t : current_time - t > 60)

\* line 54: [t for t in request_counts[ip] if current_time - t < 60]
recent(times, current_time) ==
    SelectSeq(times, LAMBDA t : current_time - t < 60)

InitRate ==
    /\ store = {}
    /\ text = <<>>
    /\ run = 1
    /\ pc = "serving"
    /\ sentences = <<>>
    /\ si = 0
    /\ sentence = <<>>
    /\ scanned = <<>>
    /\ corrections = <<>>
    /\ corrected = <<>>
    /\ corrected_sentences = <<>>
    /\ changes = <<>>
    /\ result = None
    /\ word = <<>>
    /\ decision = None
    /\ decision2 = None
    /\ store_ok = TRUE
    /\ IdleLookup
    /\ IdleRate

\* decorated_function, lines 46-62: a request of address ip at time now
Request(ip) ==
    /\ pc = "serving"
    /\ ip = "a" \/ Len(recorded(ip)) < MaxOther
    /\ LET current_time == now
           kept == recent(recorded(ip), current_time)
           rejected == Len(kept) >= RATE_LIMIT
       IN  /\ request_counts' =
                  [k \in DOMAIN request_counts \cup {ip} |->
                      IF k # ip THEN request_counts[k]
                      ELSE IF rejected THEN kept
                      ELSE Append(kept, current_time)]
           /\ response' = IF rejected THEN "429" ELSE "passed"
    /\ client' = ip
    /\ UNCHANGED <<store, text, run, pc, sentences, si, sentence, scanned,
                   corrections, corrected, corrected_sentences, changes,
                   result, word, decision, decision2, store_ok, lookupVars,
                   now>>

\* time.time() advances, by half a minute
Tick ==
    /\ pc = "serving"
    /\ now < 30 * MaxTicks
    /\ now' = now + 30
    /\ UNCHANGED <<store, text, run, pc, sentences, si, sentence, scanned,
                   corrections, corrected, corrected_sentences, changes,
                   result, word, decision, decision2, store_ok, lookupVars,
                   request_counts, client, response>>

NextRate == (\E ip \in Addresses : Request(ip)) \/ Tick

SpecRate == InitRate /\ [][NextRate]_vars

-----------------------------------------------------------------------------
(* Properties.                                                             *)

\* number of tokens of the span a correction was made for
SpanLen(c) == Len(split(c.original))

\* token indices (0-based) covered by a correction
Span(c) == c.position .. (c.position + SpanLen(c) - 1)

\* t is a known geographic name whose text differs from its canonical form
Miscapitalized(t) ==
    is_proper_name(t) /\ t # get_correct_capitalization(t)[1]

RECURSIVE scan_all(_)
\* the corrections of the non-blank segments, segment after segment, each
\* segment's corrections as check_phrase returns them
scan_all(segments) ==
    IF segments = <<>> THEN <<>>
    ELSE (IF strip(segments[1]) = <<>> THEN <<>>
          ELSE check_phrase(segments[1])) \o scan_all(Tail(segments))

\* C1: analysing the corrected text of an analysis yields zero corrections.
C1_AnalyzeIdempotent ==
    (pc = "done" /\ run = 2) => result.total_corrections = 0

\* C2: the corrections check_phrase returns for a sentence are pairwise
\* non-overlapping, and the span of each is still unmodified in the sentence
\* when the rewriter applies it.
C2_NonOverlapping ==
    pc = "apply" =>
        /\ \A a, b \in 1..Len(scanned) :
               a # b => Span(scanned[a]) \cap Span(scanned[b]) = {}
        /\ corrections # <<>> =>
               LET c == Head(corrections)
               IN  SubSeq(split(corrected), c.position + 1,
                          c.position + SpanLen(c)) = split(c.original)

C3_ExpectedText ==
    <<"I"," ","v","i","s","i","t","e","d"," ","N","e","w"," ","Y","o","r","k",
      " ","o","n"," ","M","o","n","d","a","y",".">>

\* C3: with "New York" in the store, analyze("I visited new york on monday.")
\* returns "I visited New York on Monday.", 2 corrections and the stats
\* {"Geographic name (2 words)": 1, "Day of week": 1}.
C3_NewYorkOnMonday ==
    (/\ pc = "done"
     /\ run = 1
     /\ text = ExampleText
     /\ \E r \in store : r.name = <<"N","e","w"," ","Y","o","r","k">>)
        => /\ result.corrected_text = C3_ExpectedText
           /\ result.total_corrections = 2
           /\ result.stats = ("Geographic name (2 words)" :> 1)
                                 @@ ("Day of week" :> 1)

\* C4: applying a correction for a span of k = 2 or 3 tokens at position p
\* gives tokens[0..p-1], the tokens of the replacement, tokens[p+k..n-1].
C4_SpanReplaced ==
    [][(/\ pc = "apply"
        /\ corrections # <<>>
        /\ pc' = "apply"
        /\ SpanLen(Head(corrections)) >= 2)
           => LET c == Head(corrections)
                  words == split(corrected)
              IN  split(corrected') =
                      SubSeq(words, 1, c.position) \o split(c.correct)
                          \o SubSeq(words, c.position + SpanLen(c) + 1,
                                    Len(words))]_vars

\* C5: the changes of a result are in text order: sentence after sentence
\* and, within a sentence, by increasing token position.
C5_ChangesInTextOrder ==
    pc = "done" => result.changes = scan_all(re_split(text))

C7_GeographicPrecedence ==
    (pc \in {"resolved", "resolved2"} /\ is_proper_name(word)) =>
        LET canonical == get_correct_capitalization(word)[1]
        IN  IF word = canonical
            THEN decision = <<FALSE, word, "Correct">>
            ELSE decision = <<TRUE, canonical, "Geographic name">>

\* a canonically written place name that is also a season was resolved in
\* a context that mentions a holiday
C7_Witness ==
    /\ pc = "resolved"
    /\ is_proper_name(word)
    /\ word = get_correct_capitalization(word)[1]
    /\ lower(word) \in lowercase_terms_seasons
    /\ holiday_matches(lower(word), text)
    /\ decision = <<FALSE, word, "Correct">>

\* C8: if resolve(w, c) corrects w to w', resolve(w', c) makes no correction.
C8_ResolveIdempotent ==
    pc = "resolved2" => decision2 = <<FALSE, decision[2], "Correct">>

\* the match condition of the rule of priority k (1 = geographic, ...,
\* 10 = direction)
RuleMatches(k, w, context) ==
    LET word_lower == lower(w)
    IN  CASE k = 1 -> is_proper_name(w)
          [] k = 2 -> word_lower \in rules_days
          [] k = 3 -> word_lower \in rules_months
          [] k = 4 -> holiday_matches(word_lower, context)
          [] k = 5 -> word_lower \in rules_languages
          [] k = 6 -> /\ word_lower \in rules_military_ranks \cup rules_titles
                      /\ followed_by_capitalized(w, context)
          [] k = 7 -> word_lower \in rules_religions
          [] k = 8 -> word_lower \in deity_subset
          [] k = 9 -> word_lower \in lowercase_terms_seasons
          [] k = 10 -> word_lower \in lowercase_terms_directions

\* the priority of the rule a reason label belongs to
RuleOfReason(reason) ==
    CASE reason = "Geographic name" -> 1
      [] reason = "Day of week" -> 2
      [] reason = "Month" -> 3
      [] reason = "Holiday" -> 4
      [] reason = "Language" -> 5
      [] reason \in {"Military rank before name", "Title before name"} -> 6
      [] reason = "Religion" -> 7
      [] reason = "Deity" -> 8
      [] reason = "Season (lowercase)" -> 9

\* C9: the first rule, in priority order, whose match condition holds alone
\* determines the decision: a correction never comes from a rule of lower
\* priority than a rule that matched.
C9_FirstMatchWins ==
    (pc = "resolved" /\ decision[1]) =>
        \A k \in 1..10 :
            RuleMatches(k, word, text) => RuleOfReason(decision[3]) <= k

\* C10: analyze never fails: every correction position indexes an existing
\* token of the sentence at the moment the rewriter applies it.
C10_Total ==
    /\ pc # "error"
    /\ (pc = "apply" /\ corrections # <<>>) =>
           Head(corrections).position < Len(split(corrected))

\* a correction is about to be applied to a sentence whose token count an
\* earlier multi-word replacement has already changed
C10_Witness ==
    /\ pc = "apply"
    /\ corrections # <<>>
    /\ Len(split(corrected)) > Len(split(sentence))

\* C11: when a query of the table fails, the operation ends in an error: a
\* segment scanned while the table is unavailable yields no corrections, no
\* change and no result.
C11_StoreErrorPropagates ==
    [][(/\ ~store_ok
        /\ pc = "loop"
        /\ si <= Len(sentences)
        /\ strip(sentences[si]) # <<>>)
           => /\ pc' = "unavailable"
              /\ scanned' = scanned
              /\ changes' = changes
              /\ result' = None]_vars

\* an analysis ended in the error after an earlier sentence was corrected
C11_Witness ==
    /\ pc = "unavailable"
    /\ changes # <<>>
    /\ result = None

\* the rows of the store that match a name exactly, and ignoring case
ExactMatches(n) == {r \in store : r.name = n \/ r.asciiname = n}

NoCaseMatches(n) ==
    {r \in store : \/ sql_lower(r.name) = sql_lower(n)
                   \/ sql_lower(r.asciiname) = sql_lower(n)}

MaxPopulation(r, rows) == \A q \in rows : r.population >= q.population

C13_BoundariesVerbatim ==
    pc = "done" =>
        /\ Len(corrected_sentences) = Len(sentences)
        /\ result.corrected_text = concat(corrected_sentences)
        /\ \A i \in 1..Len(sentences) :
               (i % 2 = 0 \/ strip(sentences[i]) = <<>>) =>
                   corrected_sentences[i] = sentences[i]

GeographicReasons ==
    {"Geographic name", "Geographic name (2 words)",
     "Geographic name (3 words)"}

\* C19: the replacement of a correction with a geographic reason equals the
\* original span when letter case is ignored.
C19_CaseOnly ==
    pc = "apply" =>
        \A k \in 1..Len(scanned) :
            scanned[k].reason \in GeographicReasons =>
                lower(scanned[k].correct) = lower(scanned[k].original)

\* the word occurs among the whitespace-split tokens of the context and the
\* token right after its first occurrence starts with an upper-case letter
FirstOccurrenceBeforeCapital(w, context) ==
    LET ws == split(context)
    IN  \E i \in 1..(Len(ws) - 1) :
            /\ ws[i] = w
            /\ \A j \in 1..(i - 1) : ws[j] # w
            /\ IsUpperChar(ws[i + 1][1])

\* a word of no geographic match that the day, month, holiday and language
\* rules do not correct and whose lower-case form is a rank or a title
RankOrTitleCase(w, context) ==
    /\ ~is_proper_name(w)
    /\ lower(w) \in rules_military_ranks \cup rules_titles
    /\ ~(holiday_matches(lower(w), context) /\ w # title(lower(w)))

RankOrTitleReason(w) ==
    IF lower(w) \in rules_military_ranks THEN "Military rank before name"
                                          ELSE "Title before name"

\* C14 as stated: such a word is corrected to its capitalize-first-letter
\* form iff the token after its first occurrence in the context starts with
\* an upper-case letter, and is left alone otherwise.
C14_RankIffBeforeCapital ==
    (pc = "resolved" /\ RankOrTitleCase(word, text)) =>
        IF FirstOccurrenceBeforeCapital(word, text)
        THEN decision = <<TRUE, capitalize(lower(word)),
                          RankOrTitleReason(word)>>
        ELSE decision = <<FALSE, word, "Correct">>

\* C14, amended: such a word is corrected to its capitalize-first-letter
\* form iff it differs from that form and the token after its first
\* occurrence in the context starts with an upper-case letter.
C14_RankBeforeCapital ==
    (pc = "resolved" /\ RankOrTitleCase(word, text)) =>
        IF /\ word # capitalize(lower(word))
           /\ FirstOccurrenceBeforeCapital(word, text)
        THEN decision = <<TRUE, capitalize(lower(word)),
                          RankOrTitleReason(word)>>
        ELSE decision = <<FALSE, word, "Correct">>

\* a rank was left alone whose first occurrence is before a lower-case
\* token and whose second occurrence is before a capitalized one
C14_Witness ==
    /\ pc = "resolved"
    /\ RankOrTitleCase(word, text)
    /\ ~FirstOccurrenceBeforeCapital(word, text)
    /\ LET ws == split(text)
       IN  \E i \in 1..(Len(ws) - 1) :
               ws[i] = word /\ IsUpperChar(ws[i + 1][1])
    /\ decision = <<FALSE, word, "Correct">>

\* a word of no geographic match that the day and month rules do not
\* correct, that is not in title-case form, and that is a holiday term or
\* stands with a context mentioning one
HolidayCase(w, context) ==
    /\ ~is_proper_name(w)
    /\ ~(lower(w) \in rules_days \cup rules_months
          /\ w # capitalize(lower(w)))
    /\ w # title(lower(w))
    /\ \/ lower(w) \in rules_holidays
       \/ \E holiday \in rules_holidays : contains(lower(context), holiday)

MultiWordReasons ==
    {"Geographic name (2 words)", "Geographic name (3 words)"}

\* the scan of the sentence holds the Holiday correction of token i (1-based)
HolidayCorrectionAt(cs, ws, i) ==
    \E k \in 1..Len(cs) :
        cs[k] = Correction(i - 1, ws[i], title(lower(ws[i])), "Holiday")

\* the scan holds a two- or three-word geographic correction at token i
MultiWordCorrectionAt(cs, i) ==
    \E k \in 1..Len(cs) :
        cs[k].position = i - 1 /\ cs[k].reason \in MultiWordReasons

\* resolve, with the sentence as context, corrects every such word of the
\* vocabulary to its title-case form with reason "Holiday"
HolidayResolved(context) ==
    \A w \in ResolveWords :
        HolidayCase(w, context) =>
            check_word(w, context) = <<TRUE, title(lower(w)), "Holiday">>

\* C15 as stated: resolve corrects such a word to its title-case form with
\* reason "Holiday", and the scan of a sentence corrects every such word of
\* the sentence with reason "Holiday".
C15_HolidayEveryWord ==
    pc = "apply" =>
        /\ HolidayResolved(sentence)
        /\ LET ws == split(sentence)
           IN  \A i \in 1..Len(ws) :
                   HolidayCase(ws[i], sentence) =>
                       HolidayCorrectionAt(scanned, ws, i)

\* C15, amended: resolve corrects such a word to its title-case form with
\* reason "Holiday", and the scan of a sentence corrects every such word of
\* the sentence with reason "Holiday", except at an index where it emits a
\* two- or three-word geographic correction.
C15_HolidayRule ==
    pc = "apply" =>
        /\ HolidayResolved(sentence)
        /\ LET ws == split(sentence)
           IN  \A i \in 1..Len(ws) :
                   HolidayCase(ws[i], sentence) =>
                       IF MultiWordCorrectionAt(scanned, i)
                       THEN ~HolidayCorrectionAt(scanned, ws, i)
                       ELSE HolidayCorrectionAt(scanned, ws, i)

\* the scan corrected a word that is no holiday term for the holiday its
\* sentence mentions, and emitted a multi-word geographic correction at the
\* index of another such word
C15_Witness ==
    /\ pc = "apply"
    /\ LET ws == split(sentence)
       IN  /\ \E i \in 1..Len(ws) :
                  /\ HolidayCase(ws[i], sentence)
                  /\ lower(ws[i]) \notin rules_holidays
                  /\ HolidayCorrectionAt(scanned, ws, i)
           /\ \E i \in 1..Len(ws) :
                  /\ HolidayCase(ws[i], sentence)
                  /\ MultiWordCorrectionAt(scanned, i)

\* the reason of the capitalize-first-letter category of a lower-case word,
\* "" when it is in none
CapitalizeFirstReason(word_lower) ==
    IF word_lower \in rules_days THEN "Day of week"
    ELSE IF word_lower \in rules_months THEN "Month"
    ELSE IF word_lower \in rules_languages THEN "Language"
    ELSE IF word_lower \in rules_religions THEN "Religion"
    ELSE IF word_lower \in deity_subset THEN "Deity"
    ELSE ""

NoHolidayTerm(context) ==
    \A holiday \in rules_holidays : ~contains(lower(context), holiday)

\* C16: for a word of no geographic match and a context with no holiday
\* term, a day, month, language, religion or deity needs correction exactly
\* when it differs from its capitalize-first-letter form, to that form and
\* with the category's reason; a word matching no store record and no rule
\* resolves as (FALSE, word, "Correct").
C16_CapitalizeFirst ==
    pc = "resolved" =>
        /\ (/\ ~is_proper_name(word)
            /\ NoHolidayTerm(text)
            /\ CapitalizeFirstReason(lower(word)) # "") =>
               /\ decision[1] = (word # capitalize(lower(word)))
               /\ decision[1] =>
                      decision = <<TRUE, capitalize(lower(word)),
                                   CapitalizeFirstReason(lower(word))>>
        /\ (/\ ~is_proper_name(word)
            /\ \A k \in 2..10 : ~RuleMatches(k, word, text)) =>
               decision = <<FALSE, word, "Correct">>

\* a month or a deity not in capitalize-first-letter form was corrected
C16_Witness ==
    /\ pc = "resolved"
    /\ ~is_proper_name(word)
    /\ NoHolidayTerm(text)
    /\ CapitalizeFirstReason(lower(word)) \in {"Month", "Deity"}
    /\ decision = <<TRUE, capitalize(lower(word)),
                    CapitalizeFirstReason(lower(word))>>

RECURSIVE SumOver(_, _)
\* the sum of the counts f[k] for k in keys
SumOver(f, keys) ==
    IF keys = {} THEN 0
    ELSE LET k == CHOOSE x \in keys : TRUE
         IN  f[k] + SumOver(f, keys \ {k})

\* how many times c occurs in the list cs
Occurrences(cs, c) == Cardinality({i \in 1..Len(cs) : cs[i] = c})

\* C17: in every analysis result total_corrections is the length of changes
\* and the sum of the counts in stats, the keys of stats are the reasons
\* occurring in changes, and changes holds the corrections check_phrase
\* returned for the sentences of the text, each once.
C17_ReportConsistent ==
    pc = "done" =>
        LET found == scan_all(re_split(text))
        IN  /\ result.total_corrections = Len(result.changes)
            /\ result.total_corrections =
                   SumOver(result.stats, DOMAIN result.stats)
            /\ DOMAIN result.stats =
                   {result.changes[i].reason : i \in 1..Len(result.changes)}
            /\ Len(result.changes) = Len(found)
            /\ \A i \in 1..Len(found) :
                   Occurrences(result.changes, found[i]) =
                       Occurrences(found, found[i])

\* a result with two reasons, one of them counted twice or more
C17_Witness ==
    /\ pc = "done"
    /\ Cardinality(DOMAIN result.stats) >= 2
    /\ \E r \in DOMAIN result.stats : result.stats[r] >= 2

\* C18: a sentence whose scan found no correction is rewritten to the same
\* token sequence; and when the scan found no correction in any sentence,
\* the corrected text has, sentence by sentence, the token sequence of the
\* original text.
C18_PositionPreserved ==
    /\ (pc = "apply" /\ scanned = <<>>) =>
           split(corrected) = split(sentence)
    /\ (pc = "done" /\ result.changes = <<>>) =>
           /\ Len(corrected_sentences) = Len(sentences)
           /\ \A i \in 1..Len(sentences) :
                  split(corrected_sentences[i]) = split(sentences[i])
           /\ split(result.corrected_text) = split(text)

\* an analysis of a text of two sentences with tokens found no correction
C18_Witness ==
    /\ pc = "done"
    /\ result.changes = <<>>
    /\ Len(sentences) >= 3
    /\ split(sentences[1]) # <<>>
    /\ split(sentences[3]) # <<>>

\* how many of the times are less than 60 seconds before t
Younger(times, t) ==
    Cardinality({i \in 1..Len(times) : t - times[i] < 60})

\* how many of the times fall in the 60 seconds from s on
InWindow(times, s) ==
    Cardinality({i \in 1..Len(times) : s <= times[i] /\ times[i] < s + 60})

\* no address has more than 100 recorded requests in any 60-second window;
\* a window holds no more requests than the window that starts at its first
\* one, so the windows that start at a recorded request are enough
WindowBounded ==
    \A ip \in DOMAIN request_counts :
        LET times == request_counts[ip]
        IN  \A s \in {times[i] : i \in 1..Len(times)} :
                InWindow(times, s) <= RATE_LIMIT

\* a request of an address is rejected iff 100 of its recorded requests are
\* less than 60 seconds old; a rejected request is not recorded, an accepted
\* one is; the records of the other addresses stay as they are
RequestDecided ==
    now' = now =>
        LET ip == client'
            before == Younger(recorded(ip), now)
        IN  /\ response' = "429" <=> before >= RATE_LIMIT
            /\ response' # "429" => response' = "passed"
            /\ Younger(request_counts'[ip], now) =
                   IF response' = "429" THEN before ELSE before + 1
            /\ \A other \in DOMAIN request_counts \ {ip} :
                   request_counts'[other] = request_counts[other]

\* no step drops a recorded request that is less than 60 seconds old
YoungKept ==
    \A ip \in DOMAIN request_counts :
        Younger(request_counts'[ip], now') >= Younger(request_counts[ip], now')

\* C20: a request of an address at time t is rejected iff the address has
\* 100 accepted requests less than 60 seconds before t; rejected requests
\* are not recorded and other addresses are not counted; no address has
\* more than 100 accepted requests in a 60-second window.
C20_RateLimit ==
    []WindowBounded /\ [][RequestDecided /\ YoungKept]_vars

\* the first address is rejected with 100 requests on record, made at two
\* times, while the second address has a request on record too
C20_Witness ==
    /\ response = "429"
    /\ client = "a"
    /\ Len(recorded("a")) = RATE_LIMIT
    /\ recorded("a")[1] # recorded("a")[RATE_LIMIT]
    /\ recorded("b") # <<>>

====
